---------------------------- MODULE Spec2Model ----------------------------
(***************************************************************************)
(* Model of src/eval_prm/run_eval_with_vllm.py: the generation loop with   *)
(* its periodic checkpoint, the evaluation (grading) loop, and the metrics *)
(* aggregation compute_metrics_fn.                                         *)
(*                                                                         *)
(* Two specifications:                                                     *)
(*   Spec        one run of the script over a dataset of NumSamples        *)
(*               samples (FairSpec adds the fairness of a sequential       *)
(*               program that always takes its next step);                 *)
(*   SpecMetrics compute_metrics_fn as a pure function, applied to every   *)
(*               eval_results list within the bounds and every k.          *)
(*                                                                         *)
(* Accuracies are Python floats in the source; here they are exact         *)
(* rationals [num, den] in lowest terms, so "correct / count" and the mean *)
(* are compared exactly.                                                   *)
(***************************************************************************)
EXTENDS Integers, Sequences, FiniteSets, TLC

VARIABLES
    pc,           \* position of the script
    idx,          \* number of samples the for-loop has consumed (enumerate's idx of the current one)
    cur,          \* the loop's variables: sample, prompt, output_text
    stage,        \* per-sample state: PENDING / GENERATED / EXTRACTED / GRADED / SKIPPED
    generations,  \* the list `generations`
    checkpoint,   \* checkpoint_generations.jsonl: [exists, recs]
    ckptWrites,   \* how many times the checkpoint file has been written
    faults,       \* how many non-default samples the run has met so far
    evalPos,      \* position of the evaluation loop in `generations`
    gens_file,    \* generations.jsonl: [exists, recs]
    eval_file,    \* eval_results.jsonl: [exists, recs]
    metrics_file, \* metrics.txt: [exists, tables]
    args,         \* SpecMetrics: the arguments of compute_metrics_fn
    ret           \* SpecMetrics: what compute_metrics_fn returned

vars == <<pc, idx, cur, stage, generations, checkpoint, ckptWrites, faults,
          evalPos, gens_file, eval_file, metrics_file, args, ret>>

---------------------------------------------------------------------------
(* Bounds *)

\* datasets[:args.num_test_sample]: the number of samples of the run
NumSamples == 201

\* at most this many samples of a run are not the default (well-formed, right) sample
MaxFaults == 2

\* SpecMetrics: the generation records of an eval_results list, all samples together
MaxRecords == 3

\* SpecMetrics: k ranges over 1..MaxK
MaxK == 3

---------------------------------------------------------------------------
(* Program constants and small helpers *)

checkpoint_interval == 100

None == "None"

Min(a, b) == IF a < b THEN a ELSE b

Range(s) == {s[i] : i \in DOMAIN s}

\* seq[:k]
Take(seq, k) == SubSeq(seq, 1, Min(k, Len(seq)))

\* d[key] = value on a dict modelled as a record (adds the key when absent)
SetField(rec, key, value) ==
    [f \in (DOMAIN rec) \cup {key} |-> IF f = key THEN value ELSE rec[f]]

RECURSIVE GCD(_, _)
GCD(a, b) == IF b = 0 THEN a ELSE GCD(b, a % b)

\* the rational n/d (d > 0) in lowest terms
Rat(n, d) == LET g == GCD(n, d) IN [num |-> n \div g, den |-> d \div g]

RatAdd(x, y) == Rat(x.num * y.den + y.num * x.den, x.den * y.den)

RECURSIVE RatSum(_)
RatSum(xs) == IF xs = <<>> THEN Rat(0, 1) ELSE RatAdd(xs[1], RatSum(Tail(xs)))

\* np.mean of a non-empty list
Mean(xs) == LET s == RatSum(xs) IN Rat(s.num, s.den * Len(xs))

---------------------------------------------------------------------------
(* The collaborators: the dataset, the generator, the parser, the grader   *)

(* A sample is one of these kinds; the kind fixes what the sample holds    *)
(* and what the collaborators do with it.                                  *)
(*   right        question under "question", has "answer"; graded equal    *)
(*   wrong        question under "prompt", no "answer"; graded unequal     *)
(*   gradefail    question under "input"; math_equal raises                *)
(*   nokeys       none of the four question keys                           *)
(*   emptyq       "question" present and empty, the others absent          *)
(*   genfail      question under "problem"; generate_output raises         *)
(*   extractfail  extract_and_strip raises on the generated text           *)
(*   gtfail       no "answer"; parse_ground_truth raises                   *)
Kinds == {"right", "wrong", "gradefail", "nokeys", "emptyq", "genfail",
          "extractfail", "gtfail"}

QuestionKeys == <<"question", "prompt", "input", "problem">>

\* sample.get(key) for the keys the script reads
SampleGet(i, kind, key) ==
    CASE key = "question" ->
           IF kind \in {"right", "extractfail", "gtfail"} THEN <<"q", i>>
           ELSE IF kind = "emptyq" THEN "" ELSE None
      [] key = "prompt"   -> IF kind = "wrong" THEN <<"q", i>> ELSE None
      [] key = "input"    -> IF kind = "gradefail" THEN <<"q", i>> ELSE None
      [] key = "problem"  -> IF kind = "genfail" THEN <<"q", i>> ELSE None
      [] key = "answer"   -> IF kind \in {"right", "extractfail"} THEN "a" ELSE None
      [] OTHER -> None

Sample(i, kind) == [id |-> i, kind |-> kind]

\* Python truthiness of a value a sample holds
Truthy(v) == v # None /\ v # ""

\* the samples at which a run may meet a non-default sample
FaultSlots ==
    {1, checkpoint_interval, checkpoint_interval + 1, 2 * checkpoint_interval}

KindsAt(i, f) == IF i \in FaultSlots /\ f < MaxFaults THEN Kinds ELSE {"right"}

FaultCost(kind) == IF kind = "right" THEN 0 ELSE 1

\* generate_output(prompt): the decoded text, or "raise"
generate_output(sample) ==
    IF sample.kind = "genfail" THEN "raise" ELSE <<"text", sample.kind>>

\* extract_and_strip(output_text, data_name): the answer, or "raise"
extract_and_strip(output_text) ==
    CASE output_text[2] = "extractfail" -> "raise"
      [] output_text[2] = "wrong"       -> "b"
      [] output_text[2] = "gradefail"   -> "?"
      [] OTHER                          -> "a"

\* parse_ground_truth(sample, data_name)[-1]: the answer, or "raise"
parse_ground_truth(sample) ==
    IF sample.kind = "gtfail" THEN "raise" ELSE "a"

\* whether math_equal(pred, gt_ans) raises
math_equal_raises(pred, gt_ans) == pred = "?"

\* math_equal(pred, gt_ans) when it returns
math_equal(pred, gt_ans) == pred = gt_ans

\* save_jsonl(data, path): the file's new contents
save_jsonl(data) == [exists |-> TRUE, recs |-> data]

NoFile == [exists |-> FALSE, recs |-> <<>>]

\* args.data_name
data_name == "college_math"

\* args.save_outputs: the run is started with --save_outputs
save_outputs == TRUE

---------------------------------------------------------------------------
(* The aggregation policies (src.eval_utils.vote.AGG_FN_MAP)               *)

pass_fn(eval_samples) ==
    [dataset |-> eval_samples[1].dataset,
     ans     |-> eval_samples[1].ans,
     correct |-> eval_samples[1].correct]

GroupSize(eval_samples, a) ==
    Cardinality({j \in DOMAIN eval_samples : eval_samples[j].ans = a})

\* the earliest record of a largest group of equal answers
ModalIndex(eval_samples) ==
    CHOOSE i \in DOMAIN eval_samples :
        /\ \A j \in DOMAIN eval_samples :
               GroupSize(eval_samples, eval_samples[j].ans)
                   <= GroupSize(eval_samples, eval_samples[i].ans)
        /\ \A j \in DOMAIN eval_samples :
               (j < i) => GroupSize(eval_samples, eval_samples[j].ans)
                              < GroupSize(eval_samples, eval_samples[i].ans)

majority_vote(eval_samples) ==
    LET rep == eval_samples[ModalIndex(eval_samples)]
    IN  [dataset |-> eval_samples[1].dataset,
         ans     |-> rep.ans,
         correct |-> rep.correct]

AGG_FN_MAP(agg_method, eval_samples) ==
    IF agg_method = "pass" THEN pass_fn(eval_samples)
    ELSE majority_vote(eval_samples)

agg_fn_list == <<"pass", "majority_vote">>

---------------------------------------------------------------------------
(* compute_metrics_fn                                                      *)

\* mutant: the slice [:k] forgotten, every generation of the sample is passed on
eval_samples_of_unsliced(sample, k) ==
    [j \in 1..Len(sample.generation) |->
        [dataset |-> sample.dataset,
         ans     |-> sample.generation[j].pred,
         scores  |-> None,
         correct |-> sample.generation[j].correct]]

\* the list comprehension over sample["generation"][:k]
eval_samples_of(sample, k) ==
    LET gens == Take(sample.generation, k)
    IN  [j \in 1..Len(gens) |->
            [dataset |-> sample.dataset,
             ans     |-> gens[j].pred,
             scores  |-> None,
             correct |-> gens[j].correct]]

\* mutant: agg_method ignored, the pass policy always applied
final_results_always_pass(eval_results, k, agg_method) ==
    [i \in 1..Len(eval_results) |->
        AGG_FN_MAP("pass", eval_samples_of(eval_results[i], k))]

\* final_results: one decision per sample
final_results(eval_results, k, agg_method) ==
    [i \in 1..Len(eval_results) |->
        AGG_FN_MAP(agg_method, eval_samples_of(eval_results[i], k))]

\* the positions at which a dataset name is seen for the first time
first_seen(results) ==
    {i \in DOMAIN results :
        \A j \in DOMAIN results : (j < i) => results[j].dataset # results[i].dataset}

\* the keys of dataset_counts, in insertion (first-seen) order
dataset_order(results) ==
    LET firsts == first_seen(results)
    IN  [n \in 1..Cardinality(firsts) |->
            results[CHOOSE i \in firsts :
                        Cardinality({j \in firsts : j < i}) = n - 1].dataset]

dataset_counts(results, d) ==
    Cardinality({i \in DOMAIN results : results[i].dataset = d})

\* mutant: `if result["correct"]` forgotten, every record counted as correct
dataset_correct_unfiltered(results, d) ==
    Cardinality({i \in DOMAIN results : results[i].dataset = d})

dataset_correct(results, d) ==
    Cardinality({i \in DOMAIN results :
                    results[i].dataset = d /\ results[i].correct})

\* one row of `metrics`
metric_row(results, d) ==
    [dataset  |-> d,
     total    |-> dataset_counts(results, d),
     correct  |-> dataset_correct(results, d),
     accuracy |-> Rat(dataset_correct(results, d), dataset_counts(results, d))]

dataset_rows(results) ==
    LET order == dataset_order(results)
    IN  [n \in 1..Len(order) |-> metric_row(results, order[n])]

RECURSIVE SumField(_, _, _)
SumField(rows, n, f) == IF n = 0 THEN 0 ELSE rows[n][f] + SumField(rows, n - 1, f)

\* mutant: the sample-weighted accuracy, all correct over all total
average_accuracy_weighted(rows) ==
    IF rows # <<>>
    THEN Rat(SumField(rows, Len(rows), "correct"), SumField(rows, Len(rows), "total"))
    ELSE Rat(0, 1)

average_accuracy(rows) ==
    IF rows # <<>> THEN Mean([n \in 1..Len(rows) |-> rows[n].accuracy])
    ELSE Rat(0, 1)

compute_metrics_fn(eval_results, k, agg_method) ==
    LET rows == dataset_rows(final_results(eval_results, k, agg_method))
    IN  Append(rows, [Average |-> average_accuracy(rows)])

---------------------------------------------------------------------------
(* The run of the script                                                   *)

NoSample == [id |-> 0, kind |-> "none"]

Init ==
    /\ pc = "gen"
    /\ idx = 0
    /\ cur = [sample |-> NoSample, prompt |-> None, output_text |-> <<"text", "none">>]
    /\ stage = [i \in 1..NumSamples |-> "PENDING"]
    /\ generations = <<>>
    /\ checkpoint = NoFile
    /\ ckptWrites = 0
    /\ faults = 0
    /\ evalPos = 0
    /\ gens_file = NoFile
    /\ eval_file = NoFile
    /\ metrics_file = [exists |-> FALSE, tables |-> <<>>]
    /\ args = [eval_results |-> <<>>, k |-> 1]
    /\ ret = None

\* mutant: only the key "question" is looked up
first_prompt_question_only(sample) ==
    IF Truthy(SampleGet(sample.id, sample.kind, "question"))
    THEN SampleGet(sample.id, sample.kind, "question")
    ELSE None

\* next(... for k in [...] if sample.get(k)), None)
first_prompt(sample) ==
    LET hits == {n \in DOMAIN QuestionKeys :
                    Truthy(SampleGet(sample.id, sample.kind, QuestionKeys[n]))}
    IN  IF hits = {} THEN None
        ELSE SampleGet(sample.id, sample.kind,
                       QuestionKeys[CHOOSE n \in hits : \A m \in hits : n <= m])

\* the sample the loop takes next: datasets[idx]
NextSamples == {Sample(idx + 1, kind) : kind \in KindsAt(idx + 1, faults)}

Skip(sample) ==
    /\ cur' = [sample |-> sample, prompt |-> first_prompt(sample),
               output_text |-> cur.output_text]
    /\ stage' = [stage EXCEPT ![sample.id] = "SKIPPED"]
    /\ idx' = idx + 1
    /\ faults' = faults + FaultCost(sample.kind)
    /\ pc' = "gen"
    /\ UNCHANGED <<generations, checkpoint, ckptWrites, evalPos,
                   gens_file, eval_file, metrics_file, args, ret>>

\* `if not prompt: ... continue`
SkipMalformed ==
    /\ pc = "gen" /\ idx < NumSamples
    /\ \E sample \in NextSamples :
          /\ ~Truthy(first_prompt(sample))
          /\ Skip(sample)

\* `except Exception: ... continue` around generate_output
SkipGenerationFailed ==
    /\ pc = "gen" /\ idx < NumSamples
    /\ \E sample \in NextSamples :
          /\ Truthy(first_prompt(sample))
          /\ generate_output(sample) = "raise"
          /\ Skip(sample)

\* generate_output returned
Generate ==
    /\ pc = "gen" /\ idx < NumSamples
    /\ \E sample \in NextSamples :
          /\ Truthy(first_prompt(sample))
          /\ generate_output(sample) # "raise"
          /\ cur' = [sample |-> sample, prompt |-> first_prompt(sample),
                     output_text |-> generate_output(sample)]
          /\ stage' = [stage EXCEPT ![sample.id] = "GENERATED"]
          /\ faults' = faults + FaultCost(sample.kind)
          /\ pc' = "extract"
          /\ UNCHANGED <<idx, generations, checkpoint, ckptWrites, evalPos,
                         gens_file, eval_file, metrics_file, args, ret>>

\* sample.get("answer") or parse_ground_truth(sample, args.data_name)[-1]
gt_ans_of(sample) ==
    IF Truthy(SampleGet(sample.id, sample.kind, "answer"))
    THEN SampleGet(sample.id, sample.kind, "answer")
    ELSE parse_ground_truth(sample)

\* mutant: the record is created with its correctness flag already set
NewGeneration_with_flag(c) ==
    [dataset  |-> data_name,
     question |-> c.prompt,
     response |-> c.output_text,
     pred     |-> extract_and_strip(c.output_text),
     gt_ans   |-> gt_ans_of(c.sample),
     correct  |-> FALSE]

\* the dict `generation`
NewGeneration(c) ==
    [dataset  |-> data_name,
     question |-> c.prompt,
     response |-> c.output_text,
     pred     |-> extract_and_strip(c.output_text),
     gt_ans   |-> gt_ans_of(c.sample)]

\* mutant: the off-by-one test idx % checkpoint_interval == 0
CheckpointDue_off_by_one(i) == i % checkpoint_interval = 0

\* (idx + 1) % checkpoint_interval == 0
CheckpointDue(i) == (i + 1) % checkpoint_interval = 0

\* mutant: only the records added since the last boundary are written
CheckpointData_latest_only(gens) ==
    SubSeq(gens, Len(gens) - Min(Len(gens), checkpoint_interval) + 1, Len(gens))

\* what the checkpoint write is given: the whole list
CheckpointData(gens) == gens

\* extract_and_strip or parse_ground_truth raises: nothing catches it
ExtractionCrash ==
    /\ pc = "extract"
    /\ \/ extract_and_strip(cur.output_text) = "raise"
       \/ gt_ans_of(cur.sample) = "raise"
    /\ pc' = "crashed"
    /\ UNCHANGED <<idx, cur, stage, generations, checkpoint, ckptWrites,
                   faults, evalPos, gens_file, eval_file, metrics_file, args, ret>>

\* build the record, append it, checkpoint when due
AppendGeneration ==
    /\ pc = "extract"
    /\ extract_and_strip(cur.output_text) # "raise"
    /\ gt_ans_of(cur.sample) # "raise"
    /\ LET gens == Append(generations, NewGeneration(cur))
       IN  /\ generations' = gens
           /\ IF CheckpointDue(idx)
              THEN /\ checkpoint' = save_jsonl(CheckpointData(gens))
                   /\ ckptWrites' = ckptWrites + 1
              ELSE UNCHANGED <<checkpoint, ckptWrites>>
    /\ stage' = [stage EXCEPT ![cur.sample.id] = "EXTRACTED"]
    /\ idx' = idx + 1
    /\ pc' = "gen"
    /\ UNCHANGED <<cur, faults, evalPos, gens_file, eval_file, metrics_file, args, ret>>

\* the for-loop is exhausted; `if args.save_outputs:` writes generations.jsonl
LoopExit ==
    /\ pc = "gen" /\ idx = NumSamples
    /\ gens_file' = IF save_outputs THEN save_jsonl(generations) ELSE gens_file
    /\ pc' = "eval"
    /\ evalPos' = 1
    /\ UNCHANGED <<idx, cur, stage, generations, checkpoint, ckptWrites,
                   faults, eval_file, metrics_file, args, ret>>

\* mutant: no fallback, a raising grader leaves the record without its flag
Graded_no_fallback(gen) ==
    IF math_equal_raises(gen.pred, gen.gt_ans) THEN gen
    ELSE SetField(gen, "correct", math_equal(gen.pred, gen.gt_ans))

\* the outcome of try: gen["correct"] = math_equal(...) except: gen["correct"] = False
Graded(gen) ==
    SetField(gen, "correct",
             IF math_equal_raises(gen.pred, gen.gt_ans) THEN FALSE
             ELSE math_equal(gen.pred, gen.gt_ans))

\* the sample a generation record came from
SampleOfRecord(gen) == gen.question[2]

Evaluate ==
    /\ pc = "eval" /\ evalPos <= Len(generations)
    /\ generations' = [generations EXCEPT ![evalPos] = Graded(generations[evalPos])]
    /\ stage' = [stage EXCEPT ![SampleOfRecord(generations[evalPos])] = "GRADED"]
    /\ evalPos' = evalPos + 1
    /\ UNCHANGED <<pc, idx, cur, checkpoint, ckptWrites, faults, gens_file,
                   eval_file, metrics_file, args, ret>>

SaveEvalResults ==
    /\ pc = "eval" /\ evalPos > Len(generations)
    /\ eval_file' = save_jsonl(generations)
    /\ pc' = "metrics"
    /\ UNCHANGED <<idx, cur, stage, generations, checkpoint, ckptWrites,
                   faults, evalPos, gens_file, metrics_file, args, ret>>

\* eval_results: one entry per generation, with a single-record generation list
script_eval_results(gens) ==
    [i \in 1..Len(gens) |->
        [dataset    |-> gens[i].dataset,
         generation |-> <<[pred |-> gens[i].pred, correct |-> gens[i].correct]>>]]

\* result = {"k": 1} + {dataset: accuracy for metrics[:-1]} + metrics[-1]
result_table(metrics) ==
    [k        |-> 1,
     datasets |-> SubSeq(metrics, 1, Len(metrics) - 1),
     Average  |-> metrics[Len(metrics)].Average]

all_results_of(gens) ==
    [n \in DOMAIN agg_fn_list |->
        [agg_method |-> agg_fn_list[n],
         result     |-> result_table(
                            compute_metrics_fn(script_eval_results(gens), 1,
                                               agg_fn_list[n]))]]

ComputeMetrics ==
    /\ pc = "metrics"
    /\ metrics_file' = [exists |-> TRUE, tables |-> all_results_of(generations)]
    /\ pc' = "done"
    /\ UNCHANGED <<idx, cur, stage, generations, checkpoint, ckptWrites,
                   faults, evalPos, gens_file, eval_file, args, ret>>

Next ==
    \/ SkipMalformed
    \/ SkipGenerationFailed
    \/ Generate
    \/ ExtractionCrash
    \/ AppendGeneration
    \/ LoopExit
    \/ Evaluate
    \/ SaveEvalResults
    \/ ComputeMetrics

Spec == Init /\ [][Next]_vars

\* the steps of the run up to the writing of eval_results.jsonl
StepToEvalResults ==
    \/ SkipMalformed
    \/ SkipGenerationFailed
    \/ Generate
    \/ ExtractionCrash
    \/ AppendGeneration
    \/ LoopExit
    \/ Evaluate
    \/ SaveEvalResults

\* the script is one sequential process: it takes its next step while it has one
\* (a generate call that never returns is outside the model). The fairness is
\* stated for the steps up to the end of grading, on which the samples' stages
\* depend.
FairSpec == Spec /\ WF_vars(StepToEvalResults)

---------------------------------------------------------------------------
(* compute_metrics_fn as a pure function: SpecMetrics                      *)

Datasets == {"A", "B"}

Preds == {"a", "b"}

GenerationRecords == [pred : Preds, correct : BOOLEAN]

\* every eval_results list whose samples each hold at least one generation
\* record and together hold at most `budget` of them
RECURSIVE EvalResultsUpTo(_)
EvalResultsUpTo(budget) ==
    {<<>>} \cup
    UNION {{<<[dataset |-> d, generation |-> g]>> \o rest :
                d \in Datasets,
                g \in [1..m -> GenerationRecords],
                rest \in EvalResultsUpTo(budget - m)} : m \in 1..budget}

MetricsInit ==
    /\ pc = "call"
    /\ args \in [eval_results : EvalResultsUpTo(MaxRecords), k : 1..MaxK]
    /\ ret = None
    /\ idx = 0
    /\ cur = [sample |-> NoSample, prompt |-> None, output_text |-> <<"text", "none">>]
    /\ stage = [i \in 1..NumSamples |-> "PENDING"]
    /\ generations = <<>>
    /\ checkpoint = NoFile
    /\ ckptWrites = 0
    /\ faults = 0
    /\ evalPos = 0
    /\ gens_file = NoFile
    /\ eval_file = NoFile
    /\ metrics_file = [exists |-> FALSE, tables |-> <<>>]

\* the call, once per aggregation method as in `for agg_method in agg_fn_list`;
\* the decisions (the local final_results) are kept beside the returned metrics
CallComputeMetrics ==
    /\ pc = "call"
    /\ ret' = [m \in Range(agg_fn_list) |->
                 [decisions |-> final_results(args.eval_results, args.k, m),
                  metrics   |-> compute_metrics_fn(args.eval_results, args.k, m)]]
    /\ pc' = "returned"
    /\ UNCHANGED <<idx, cur, stage, generations, checkpoint, ckptWrites, faults,
                   evalPos, gens_file, eval_file, metrics_file, args>>

MetricsNext == CallComputeMetrics

SpecMetrics == MetricsInit /\ [][MetricsNext]_vars

---------------------------------------------------------------------------
(* Claims about compute_metrics_fn (SpecMetrics)                           *)

Methods == Range(agg_fn_list)

Returned == pc = "returned"

\* the entries of a returned list that are per-dataset rows / Average entries
RowIndexes(out) == {n \in DOMAIN out : "dataset" \in DOMAIN out[n]}

AverageIndexes(out) == {n \in DOMAIN out : "Average" \in DOMAIN out[n]}

RECURSIVE DenProduct(_, _)
DenProduct(out, n) ==
    IF n = 0 THEN 1 ELSE out[n].accuracy.den * DenProduct(out, n - 1)

\* the sum of the first n accuracies, as a numerator over the denominator D
RECURSIVE NumSumOver(_, _, _)
NumSumOver(out, n, D) ==
    IF n = 0 THEN 0
    ELSE out[n].accuracy.num * (D \div out[n].accuracy.den) + NumSumOver(out, n - 1, D)

\* out = rows followed by one Average entry holding the unweighted mean of the rows
AverageIsUnweightedMean(out) ==
    LET rows == Len(out) - 1
        avg  == out[Len(out)].Average
        D    == DenProduct(out, rows)
    IN  /\ Len(out) >= 1
        /\ AverageIndexes(out) = {Len(out)}
        /\ RowIndexes(out) = 1..rows
        /\ avg.den > 0
        /\ rows = 0 => avg = [num |-> 0, den |-> 1]
        /\ rows > 0 => avg.num * rows * D = NumSumOver(out, rows, D) * avg.den
        /\ (/\ rows = 2
            /\ {out[1].accuracy, out[2].accuracy}
                   = {[num |-> 1, den |-> 1], [num |-> 0, den |-> 1]})
               => avg = [num |-> 1, den |-> 2]

\* C5: compute_metrics_fn returns the per-dataset rows followed by exactly one
\* Average entry, placed last, whose value is the unweighted arithmetic mean of the
\* rows' accuracies (1.0 and 0.0 give 0.5 whatever the sample counts) and 0.0 when
\* there are no rows; the Average entry is not among the values averaged.
C5_AverageLastAndUnweighted ==
    Returned => \A m \in Methods : AverageIsUnweightedMean(ret[m].metrics)

\* C5 witness: two datasets backed by different numbers of samples, accuracies
\* 1.0 and 0.0, Average 0.5; and an empty input whose only entry is Average 0.0
C5_Witness ==
    /\ Returned
    /\ LET out == ret["pass"].metrics
       IN  /\ Len(out) = 3
           /\ out[1].total # out[2].total
           /\ {out[1].accuracy, out[2].accuracy}
                  = {[num |-> 1, den |-> 1], [num |-> 0, den |-> 1]}
           /\ out[3].Average = [num |-> 1, den |-> 2]

SamplesOf(d) == {i \in DOMAIN args.eval_results : args.eval_results[i].dataset = d}

\* one row per dataset of the input, with the counts of its decision records
RowsCountDecisions(m) ==
    LET out  == ret[m].metrics
        decs == ret[m].decisions
    IN  /\ Len(decs) = Len(args.eval_results)
        /\ \A i \in DOMAIN decs : decs[i].dataset = args.eval_results[i].dataset
        /\ \A d \in Datasets :
              Cardinality({n \in RowIndexes(out) : out[n].dataset = d})
                  = IF SamplesOf(d) = {} THEN 0 ELSE 1
        /\ \A n \in RowIndexes(out) :
              LET row == out[n]
              IN  /\ row.total = Cardinality(SamplesOf(row.dataset))
                  /\ row.correct
                         = Cardinality({i \in SamplesOf(row.dataset) : decs[i].correct})
                  /\ 1 <= row.total
                  /\ 0 <= row.correct /\ row.correct <= row.total
                  /\ row.accuracy.den > 0
                  /\ row.accuracy.num * row.total = row.correct * row.accuracy.den

\* C6: every per-dataset row has total = the number of decision records of that
\* dataset, correct = the number of those whose correct flag is true,
\* 1 <= total, 0 <= correct <= total and accuracy = correct/total exactly; no row
\* with total = 0 is produced.
C6_RowsCountDecisions ==
    Returned => \A m \in Methods : RowsCountDecisions(m)

\* C6 witness: three samples of one dataset with flags true, false, true under
\* pass@1 give accuracy 2/3 and Average 2/3
C6_Witness ==
    /\ Returned
    /\ args.k = 1
    /\ Len(args.eval_results) = 3
    /\ \A i \in 1..3 : args.eval_results[i].dataset = "A"
    /\ [i \in 1..3 |-> args.eval_results[i].generation[1].correct]
           = <<TRUE, FALSE, TRUE>>
    /\ ret["pass"].metrics
           = << [dataset |-> "A", total |-> 3, correct |-> 2,
                 accuracy |-> [num |-> 2, den |-> 3]],
                [Average |-> [num |-> 2, den |-> 3]] >>

\* the permutations of 1..n
Perms(n) == {p \in [1..n -> 1..n] : \A a, b \in 1..n : (a # b) => (p[a] # p[b])}

\* how many of a sample's generations the call looks at
Considered(sample) == Min(args.k, Len(sample.generation))

\* the sample with its first k generations rearranged by p
Permuted(sample, p) ==
    [sample EXCEPT !.generation =
        [j \in 1..Len(sample.generation) |->
            IF j <= Considered(sample) THEN sample.generation[p[j]]
            ELSE sample.generation[j]]]

SameDecision(x, y) == x.ans = y.ans /\ x.correct = y.correct

\* the majority_vote decision for sample i is the same under every permutation
\* of its first k generations
PermutationInvariant(i) ==
    \A p \in Perms(Considered(args.eval_results[i])) :
        SameDecision(
            final_results(<<Permuted(args.eval_results[i], p)>>, args.k,
                          "majority_vote")[1],
            ret["majority_vote"].decisions[i])

PredCount(recs, a) == Cardinality({j \in DOMAIN recs : recs[j].pred = a})

\* among the records one answer occurs strictly more often than every other, and
\* the records giving that answer all carry the same correct flag
UniqueUniformMode(recs) ==
    \E a \in {recs[j].pred : j \in DOMAIN recs} :
        /\ \A j \in DOMAIN recs :
              (recs[j].pred # a) => PredCount(recs, recs[j].pred) < PredCount(recs, a)
        /\ \A j1, j2 \in DOMAIN recs :
              (recs[j1].pred = a /\ recs[j2].pred = a)
                  => recs[j1].correct = recs[j2].correct

\* equal answers carry equal correct flags, as a grader gives them
FlagsFollowAnswers(recs) ==
    \A j1, j2 \in DOMAIN recs :
        (recs[j1].pred = recs[j2].pred) => (recs[j1].correct = recs[j2].correct)

\* C7 as stated: majority_vote over the first k records returns the same decision
\* for every permutation of those records, for every multiset, ties included
\* (taken here on the multisets in which equal answers carry equal flags).
C7_Original ==
    Returned =>
        \A i \in DOMAIN args.eval_results :
            FlagsFollowAnswers(Take(args.eval_results[i].generation, args.k))
                => PermutationInvariant(i)

\* C7 amended: majority_vote over the first k records returns the same decision
\* for every permutation of those records whenever one answer group is strictly
\* the largest and its records all carry the same correct flag.
C7_PermutationInvariantOnUniqueMode ==
    Returned =>
        \A i \in DOMAIN args.eval_results :
            UniqueUniformMode(Take(args.eval_results[i].generation, args.k))
                => PermutationInvariant(i)

\* C7 witness: three records considered, two answers, one of them twice
C7_Witness ==
    /\ Returned
    /\ \E i \in DOMAIN args.eval_results :
          LET recs == Take(args.eval_results[i].generation, args.k)
          IN  /\ Len(recs) = 3
              /\ recs[1].pred # recs[2].pred
              /\ recs[2].pred = recs[3].pred
              /\ UniqueUniformMode(recs)
              /\ ret["majority_vote"].decisions[i].ans = recs[2].pred

\* C8: with k = 1 the pass decision of a sample carries the correctness flag of
\* the sample's first generation, majority_vote gives the same decision, and the
\* two calls return equal metric lists.
C8_PassEqualsMajorityAtK1 ==
    (Returned /\ args.k = 1) =>
        /\ \A i \in DOMAIN args.eval_results :
              /\ ret["pass"].decisions[i].correct
                     = args.eval_results[i].generation[1].correct
              /\ ret["majority_vote"].decisions[i] = ret["pass"].decisions[i]
        /\ ret["majority_vote"].metrics = ret["pass"].metrics

\* C8 witness: k = 1 on a sample holding three generations whose later two
\* outvote the first
C8_Witness ==
    /\ Returned
    /\ args.k = 1
    /\ \E i \in DOMAIN args.eval_results :
          LET g == args.eval_results[i].generation
          IN  /\ Len(g) = 3
              /\ g[1].pred # g[2].pred /\ g[2].pred = g[3].pred
              /\ g[1].correct # g[2].correct
              /\ ret["pass"].decisions[i].correct = g[1].correct

---------------------------------------------------------------------------
(* Claims about the run of the script (Spec, FairSpec)                     *)

Skipped(i) == stage[i] = "SKIPPED"

\* the checkpoint boundaries among the first n samples whose own sample was kept
WritingBoundaries(n) ==
    {j \in 1..(n \div checkpoint_interval) : ~Skipped(j * checkpoint_interval)}

KeptAmong(n) == Cardinality({i \in 1..n : ~Skipped(i)})

Largest(S) == CHOOSE x \in S : \A y \in S : y <= x

\* C1 as stated: once the loop has processed the first n samples the checkpoint
\* has been written floor(n/100) times and holds 100*floor(n/100) records,
\* whichever samples were skipped.
C1_Original ==
    (pc = "gen") =>
        /\ ckptWrites = idx \div checkpoint_interval
        /\ Len(checkpoint.recs) = checkpoint_interval * (idx \div checkpoint_interval)

\* C1 amended: once the loop has processed the first n samples, the checkpoint has
\* been written once for every boundary 100*j <= n whose 100*j-th sample was not
\* skipped, and holds one record for every non-skipped sample up to the last such
\* boundary; so it has been written floor(n/100) times and holds 100*floor(n/100)
\* records when none of the first n samples was skipped.
C1_CheckpointAtKeptBoundaries ==
    LET B == WritingBoundaries(idx)
    IN  /\ ckptWrites = Cardinality(B)
        /\ checkpoint.exists <=> (B # {})
        /\ (B = {}) => checkpoint.recs = <<>>
        /\ (B # {}) =>
              Len(checkpoint.recs) = KeptAmong(Largest(B) * checkpoint_interval)
        /\ (\A i \in 1..idx : ~Skipped(i)) =>
              /\ ckptWrites = idx \div checkpoint_interval
              /\ Len(checkpoint.recs)
                     = checkpoint_interval * (idx \div checkpoint_interval)

\* C1 witness: 200 samples processed, the 100th skipped: nothing was written at
\* the 100th, and the one write, at the 200th, holds 199 records
C1_Witness ==
    /\ pc = "gen"
    /\ idx = 2 * checkpoint_interval
    /\ Skipped(checkpoint_interval)
    /\ ckptWrites = 1
    /\ Len(checkpoint.recs) = 2 * checkpoint_interval - 1

\* the sample holds no non-empty value under any of the four question keys
NoQuestion(sample) ==
    \A n \in DOMAIN QuestionKeys :
        LET v == SampleGet(sample.id, sample.kind, QuestionKeys[n])
        IN  v = None \/ v = ""

MustSkip(sample) == NoQuestion(sample) \/ generate_output(sample) = "raise"

\* the records are of distinct samples, in dataset order, none of them skipped
OfKeptSamplesInOrder(recs) ==
    /\ \A j \in DOMAIN recs : ~Skipped(SampleOfRecord(recs[j]))
    /\ \A j \in 1..(Len(recs) - 1) : SampleOfRecord(recs[j]) < SampleOfRecord(recs[j + 1])

\* a step of the loop that takes the next sample skips it exactly when it holds no
\* question or its generation raises; a skip adds no record and goes on to the
\* next sample
SkipStep ==
    (pc = "gen" /\ idx < NumSamples) =>
        LET sample == cur'.sample
        IN  /\ sample.id = idx + 1
            /\ (stage'[sample.id] = "SKIPPED") <=> MustSkip(sample)
            /\ MustSkip(sample) =>
                  /\ generations' = generations
                  /\ idx' = idx + 1
                  /\ pc' = "gen"

\* no record anywhere is of a skipped sample, and the consumed samples that were
\* not skipped have one record each
SkippedLeaveNoRecord ==
    /\ OfKeptSamplesInOrder(generations)
    /\ OfKeptSamplesInOrder(checkpoint.recs)
    /\ OfKeptSamplesInOrder(eval_file.recs)
    /\ \A j \in DOMAIN generations : SampleOfRecord(generations[j]) <= idx
    /\ Len(generations) = KeptAmong(idx)

TableTotals(table) ==
    SumField(table.result.datasets, Len(table.result.datasets), "total")

TableCorrect(table) ==
    SumField(table.result.datasets, Len(table.result.datasets), "correct")

\* the totals of eval_results.jsonl and of both metrics tables count exactly the
\* non-skipped samples
TotalsCountKept ==
    (pc = "done") =>
        /\ Len(eval_file.recs) = KeptAmong(NumSamples)
        /\ \A n \in DOMAIN metrics_file.tables :
              /\ TableTotals(metrics_file.tables[n]) = KeptAmong(NumSamples)
              /\ TableCorrect(metrics_file.tables[n])
                     = Cardinality({j \in DOMAIN eval_file.recs :
                                       eval_file.recs[j].correct})

\* C2: a sample with no non-empty question key, or whose generation raises, is
\* skipped: no record is made for it, the loop goes on with the next sample, and
\* no total or correct count of eval_results.jsonl or of a metrics table counts
\* it; the per-dataset totals add up to the number of non-skipped samples.
C2_SkippedSamplesExcluded ==
    /\ [][SkipStep]_vars
    /\ [](SkippedLeaveNoRecord /\ TotalsCountKept)

\* C2 witness: a finished run that skipped its 100th and its 200th sample and
\* counts the 199 others
C2_Witness ==
    /\ pc = "done"
    /\ Skipped(checkpoint_interval)
    /\ Skipped(2 * checkpoint_interval)
    /\ cur.sample.kind = "right"
    /\ Len(eval_file.recs) = NumSamples - 2
    /\ TableTotals(metrics_file.tables[1]) = NumSamples - 2

HasFlag(gen) == "correct" \in DOMAIN gen

\* a grading step whose math_equal raises sets the flag to false and goes on
GradeFailureAbsorbed ==
    (pc = "eval" /\ evalPos <= Len(generations)
        /\ math_equal_raises(generations[evalPos].pred, generations[evalPos].gt_ans))
    => /\ pc' = "eval"
       /\ evalPos' = evalPos + 1
       /\ HasFlag(generations'[evalPos])
       /\ generations'[evalPos].correct = FALSE

\* during the evaluation phase the records before evalPos are graded; after it
\* every record is
AllGradedAfterEvaluation ==
    /\ (pc = "eval") => \A j \in 1..(evalPos - 1) : HasFlag(generations[j])
    /\ (pc \in {"metrics", "done"}) =>
          \A j \in DOMAIN generations :
              /\ HasFlag(generations[j])
              /\ math_equal_raises(generations[j].pred, generations[j].gt_ans)
                     => generations[j].correct = FALSE
              /\ ~math_equal_raises(generations[j].pred, generations[j].gt_ans)
                     => generations[j].correct
                            = math_equal(generations[j].pred, generations[j].gt_ans)

\* C3: in the evaluation phase a record whose math_equal raises gets the flag
\* false and the error does not propagate; after the phase every record carries a
\* flag, the records after a failing one included.
C3_GradingFailureGivesFalse ==
    /\ [][GradeFailureAbsorbed]_vars
    /\ []AllGradedAfterEvaluation

\* C3 witness: a finished run in which math_equal raised on one record and a
\* later record was graded correct
C3_Witness ==
    /\ pc = "done"
    /\ \E j \in DOMAIN generations :
          /\ math_equal_raises(generations[j].pred, generations[j].gt_ans)
          /\ generations[j].correct = FALSE
          /\ j < Len(generations)
          /\ generations[j + 1].correct = TRUE

\* C4 as stated: once the model is loaded no failure tied to a single sample ends
\* the run; it always goes on towards writing eval_results.jsonl and metrics.txt.
C4_NoSampleFailureEndsRun == pc # "crashed"

RecordFields == {"dataset", "question", "response", "pred", "gt_ans"}

\* the record as it was when it was created: without a correctness flag
SameButFlag(rec, gen) ==
    /\ DOMAIN rec = RecordFields
    /\ \A f \in RecordFields : rec[f] = gen[f]

\* the checkpoint file is absent, or holds the first records of `generations` as
\* they were created, in order and without repetition
CheckpointIsPrefix ==
    /\ ~checkpoint.exists => checkpoint.recs = <<>>
    /\ Len(checkpoint.recs) <= Len(generations)
    /\ \A j \in DOMAIN checkpoint.recs :
          SameButFlag(checkpoint.recs[j], generations[j])
    /\ \A j \in 1..(Len(checkpoint.recs) - 1) :
          SampleOfRecord(checkpoint.recs[j]) < SampleOfRecord(checkpoint.recs[j + 1])

\* a write of the checkpoint replaces it by the whole list accumulated so far
CheckpointWriteIsWhole ==
    (checkpoint' # checkpoint) =>
        /\ checkpoint'.exists
        /\ checkpoint'.recs = generations'
        /\ Len(checkpoint'.recs) > Len(checkpoint.recs)

\* `generations` only grows at its end; its records change by their flag alone
GenerationsOnlyGrow ==
    (generations' # generations) =>
        /\ Len(generations') >= Len(generations)
        /\ \A j \in DOMAIN generations :
              \A f \in RecordFields : generations'[j][f] = generations[j][f]

\* C9: every write of the checkpoint file replaces its whole contents with the
\* generation list accumulated so far; at every point the file is absent or equal
\* to a prefix of the final generations sequence, in the same order, no record
\* repeated, and no record in it carries a correctness flag.
C9_CheckpointIsPrefixOfGenerations ==
    /\ [][CheckpointWriteIsWhole /\ GenerationsOnlyGrow]_vars
    /\ []CheckpointIsPrefix

\* C9 witness: the run has finished and graded every record, the checkpoint was
\* written twice and holds the first 200 of the 201 records, ungraded
C9_Witness ==
    /\ pc = "done"
    /\ ckptWrites = 2
    /\ Len(checkpoint.recs) = 2 * checkpoint_interval
    /\ Len(generations) = NumSamples
    /\ HasFlag(generations[1])
    /\ ~HasFlag(checkpoint.recs[1])

StageMoves ==
    {<<"PENDING", "GENERATED">>, <<"GENERATED", "EXTRACTED">>,
     <<"EXTRACTED", "GRADED">>, <<"PENDING", "SKIPPED">>}

\* a step changes the stage of at most one sample, along an allowed move
StageStep ==
    LET moved == {i \in 1..NumSamples : stage'[i] # stage[i]}
    IN  /\ Cardinality(moved) <= 1
        /\ \A i \in moved : <<stage[i], stage'[i]>> \in StageMoves

\* the loop is at sample idx + 1: the samples before it are done with the loop,
\* the samples after it are untouched
OneAtATimeInOrder ==
    /\ \A i \in 1..NumSamples :
          /\ (i <= idx) => stage[i] \in {"EXTRACTED", "GRADED", "SKIPPED"}
          /\ (i = idx + 1) => stage[i] \in {"PENDING", "GENERATED"}
          /\ (i > idx + 1) => stage[i] = "PENDING"
    /\ (idx < NumSamples) =>
          ((stage[idx + 1] = "GENERATED") <=> (pc \in {"extract", "crashed"}))

\* a record has no flag when created; flags are set, and samples graded, only
\* once the generation loop has finished for all samples
FlagsOnlyInGradingPhase ==
    /\ \A j \in DOMAIN generations :
          HasFlag(generations[j]) <=> (stage[SampleOfRecord(generations[j])] = "GRADED")
    /\ (\E i \in 1..NumSamples : stage[i] = "GRADED") =>
          (idx = NumSamples /\ pc \in {"eval", "metrics", "done"})
    /\ (pc \in {"gen", "extract", "crashed"}) =>
          \A j \in DOMAIN generations : ~HasFlag(generations[j])

AllSettled == \A i \in 1..NumSamples : stage[i] \in {"GRADED", "SKIPPED"}

\* C10: each sample moves only along PENDING -> GENERATED -> EXTRACTED -> GRADED
\* or from PENDING to the terminal SKIPPED; samples are handled one at a time in
\* dataset order; a record's correctness flag is absent at creation and set only
\* in the grading phase, after the generation loop has finished; and unless an
\* extraction or ground-truth error ends the run, every sample eventually is
\* GRADED or SKIPPED.
C10_SampleLifecycle ==
    /\ [][StageStep]_vars
    /\ [](OneAtATimeInOrder /\ FlagsOnlyInGradingPhase)
    /\ <>(pc = "crashed" \/ AllSettled)

\* C10 witness: a finished run with every sample settled, some graded after a
\* sample before them was skipped
C10_Witness ==
    /\ pc = "done"
    /\ AllSettled
    /\ stage[1] = "SKIPPED"
    /\ stage[2] = "GRADED"
    /\ stage[NumSamples] = "GRADED"

=============================================================================
